---- MODULE Spec2Model ----
(***************************************************************************)
(* A model of elite-modify.py, the Commodore 64 Elite modification script: *)
(* the chained scramble codec (decrypt / encrypt loops), the overwrite     *)
(* primitives (insert_bytes, insert_binary_file, insert_nops, the LDA/STA  *)
(* block shift, the extra.bin append), the patch script that drives them,  *)
(* and the gma1 disk-protection patch.                                     *)
(*                                                                         *)
(* Bytes keep their width (every stored value is in 0..255, arithmetic is  *)
(* mod 256).  Python sequences are 0-based, TLA+ sequences are 1-based:    *)
(* offset i of a bytearray is element i + 1 of the sequence.               *)
(***************************************************************************)
EXTENDS Integers, Sequences, FiniteSets, TLC

VARIABLES
    pc,             \* position of the script (which statement runs next)
    platform,       \* the platform selector (line 78-81)
    load_address,   \* configuration variable (line 91)
    seed,           \* configuration variable (line 92)
    scramble_from,  \* configuration variable (line 93)
    scramble_to,    \* configuration variable (line 94)
    data_block,     \* the bytearray being modified
    step,           \* index of the next entry of the patch script
    written,        \* the output files written so far, in order
    log,            \* the progress messages printed so far, in order
    applied,        \* history: the entries of the patch script applied so far
    loaded,         \* history: the bytes of data_block as last read from a file
    before,         \* history: data_block before the last operation
    last            \* history: the inputs of the last operation

vars == <<pc, platform, load_address, seed, scramble_from, scramble_to,
          data_block, step, written, log, applied, loaded, before, last>>

config == <<load_address, seed, scramble_from, scramble_to>>

----------------------------------------------------------------------------
(* Bounds of the model *)

MaxLen == 3           \* longest short image drawn in the codec and patch specifications
MaxLoad == 1          \* largest load address drawn
MaxSpan == 2          \* largest scramble_to - scramble_from drawn in the codec specification
MaxPayload == 2       \* longest payload, file and NOP count drawn in the patch specification
MaxAddrPast == 2      \* how far before the load address and past the image addresses are drawn
MaxTail == 1          \* most bytes of gma6 after the byte that covers the scramble window
MaxBlob == 1          \* blob files are drawn with MaxBlob and MaxBlob + BlobStep bytes

(* Byte values the short images are drawn from *)
SampleBytes == {0, 73, 255}

(* The load addresses drawn: high enough that every address drawn is a     *)
(* natural number.                                                         *)
LoadAddresses == MaxAddrPast..(MaxAddrPast + MaxLoad)

Max(a, b) == IF a >= b THEN a ELSE b

Images(maxlen, bytes) == UNION {[1..n -> bytes] : n \in 0..maxlen}

(* An image of the given length whose neighbouring bytes differ (a # 0):   *)
(* byte i is (a * i + b) mod 256.                                          *)
Ramp(len, a, b) == [i \in 1..len |-> (a * i + b) % 256]

----------------------------------------------------------------------------
(* Python's indexing and slicing of a bytearray *)

(* d[i]: a negative index counts from the end; outside -len..len-1 it      *)
(* raises IndexError.                                                      *)
InRange(d, i) == -Len(d) <= i /\ i < Len(d)

Pos(d, i) == IF i < 0 THEN Len(d) + i + 1 ELSE i + 1

Get(d, i) == d[Pos(d, i)]

Put(d, i, v) == [d EXCEPT ![Pos(d, i)] = v]

(* The bound of a slice d[from:to]: negative counts from the end, and the  *)
(* result is clamped to 0..len.                                            *)
SliceBound(d, i) ==
    IF i < 0 THEN Max(Len(d) + i, 0)
    ELSE IF i > Len(d) THEN Len(d) ELSE i

(* d[from:to] = insert: the (possibly empty) slice is replaced by insert,  *)
(* whatever their lengths.                                                 *)
SliceAssign(d, from, to, insert) ==
    LET lo == SliceBound(d, from)
        hi == Max(lo, SliceBound(d, to))
    IN  SubSeq(d, 1, lo) \o insert \o SubSeq(d, hi + 1, Len(d))

----------------------------------------------------------------------------
(* The overwrite primitives *)

get_offset(addr) == addr - load_address

insert_bytes(d, addr, insert) ==
    LET insert_from == get_offset(addr)
        insert_to == insert_from + Len(insert)
    IN  SliceAssign(d, insert_from, insert_to, insert)

insert_binary_file(d, addr, content) ==
    LET file_size == Len(content)
        insert_from == get_offset(addr)
        insert_to == insert_from + file_size
    IN  SliceAssign(d, insert_from, insert_to, content)

insert_nops(d, addr, count) ==
    LET insert == [i \in 1..count |-> 234]
    IN  insert_bytes(d, addr, insert)

----------------------------------------------------------------------------
(* The scramble codec.  A pass is the sequence of its iterations in the    *)
(* order the code runs them, each applied to the result of the one before: *)
(* the image so far, the running seed, and whether the pass is still       *)
(* running (ok) or has ended by an IndexError, with the bytes written      *)
(* until then.  A range of iterations is split in two halves, run one      *)
(* after the other in the order of the loop, which only keeps the          *)
(* evaluation shallow.                                                     *)

gma6_seed == 73             \* line 92: 0x49

(* scramble_to - scramble_from.  The code's window is 0x62D6 bytes from    *)
(* scramble_from = 0x6A00, two bytes above the load address; the script    *)
(* is modelled on a scaled memory map (see Catalogue) whose window is this *)
(* long.                                                                   *)
ScrambleSpan == 165

(* gma6 from one byte short of the scramble window to MaxTail bytes more   *)
(* than it.                                                                *)
Gma6Files ==
    {Ramp(n, a, 0) : n \in (ScrambleSpan + 2)..(ScrambleSpan + 3 + MaxTail),
                     a \in {1, 7}}

(* Seed bytes drawn in the codec specification *)
SeedSamples == {0, 1, gma6_seed, 128, 255}

Pass(d, s) == [img |-> d, ok |-> TRUE, seed |-> s]

(* Mutant: the byte is decrypted but the running seed is not advanced. *)
decrypt_step_unchained(r, n) ==
    IF ~r.ok THEN r
    ELSE IF ~InRange(r.img, n - load_address) THEN [r EXCEPT !.ok = FALSE]
    ELSE LET new == (Get(r.img, n - load_address) - r.seed) % 256
         IN  [r EXCEPT !.img = Put(r.img, n - load_address, new)]

(* lines 114-116, one iteration *)
decrypt_step(r, n) ==
    IF ~r.ok THEN r
    ELSE IF ~InRange(r.img, n - load_address) THEN [r EXCEPT !.ok = FALSE]
    ELSE LET new == (Get(r.img, n - load_address) - r.seed) % 256
         IN  [img |-> Put(r.img, n - load_address, new), ok |-> TRUE, seed |-> new]

(* n = hi, hi - 1, ..., lo *)
RECURSIVE decrypt_range(_, _, _)
decrypt_range(r, hi, lo) ==
    IF hi < lo THEN r
    ELSE IF hi = lo THEN decrypt_step(r, hi)
    ELSE LET mid == (hi + lo) \div 2
             upper == decrypt_range(r, hi, mid + 1)
         IN  IF upper.ok THEN decrypt_range(upper, mid, lo) ELSE upper

(* n = lo, lo + 1, ..., hi *)
RECURSIVE decrypt_range_ascending(_, _, _)
decrypt_range_ascending(r, lo, hi) ==
    IF hi < lo THEN r
    ELSE IF hi = lo THEN decrypt_step(r, lo)
    ELSE LET mid == (hi + lo) \div 2
             lower == decrypt_range_ascending(r, lo, mid)
         IN  IF lower.ok THEN decrypt_range_ascending(lower, mid + 1, hi) ELSE lower

(* Mutant: the chain is run from the lowest address of the window up. *)
decrypt_ascending(d) ==
    decrypt_range_ascending(Pass(d, seed), scramble_from, scramble_to)

(* lines 111-116: range(scramble_to, scramble_from - 1, -1) *)
decrypt(d) == decrypt_range(Pass(d, seed), scramble_to, scramble_from)

(* line 447, one iteration *)
encrypt_step(r, n) ==
    IF ~r.ok THEN r
    ELSE IF ~InRange(r.img, n - load_address) \/ ~InRange(r.img, n + 1 - load_address)
         THEN [r EXCEPT !.ok = FALSE]
    ELSE [r EXCEPT !.img =
             Put(r.img, n - load_address,
                 (Get(r.img, n - load_address) + Get(r.img, n + 1 - load_address)) % 256)]

(* n = lo, lo + 1, ..., hi *)
RECURSIVE encrypt_range(_, _, _)
encrypt_range(r, lo, hi) ==
    IF hi < lo THEN r
    ELSE IF hi = lo THEN encrypt_step(r, lo)
    ELSE LET mid == (hi + lo) \div 2
             lower == encrypt_range(r, lo, mid)
         IN  IF lower.ok THEN encrypt_range(lower, mid + 1, hi) ELSE lower

(* Mutant: the highest byte of the window is left as it is (the seed is   *)
(* not added).                                                             *)
encrypt_last_unseeded(r) ==
    IF ~r.ok THEN r
    ELSE IF ~InRange(r.img, scramble_to - load_address) THEN [r EXCEPT !.ok = FALSE]
    ELSE r

(* line 449 *)
encrypt_last(r) ==
    IF ~r.ok THEN r
    ELSE IF ~InRange(r.img, scramble_to - load_address) THEN [r EXCEPT !.ok = FALSE]
    ELSE [r EXCEPT !.img =
             Put(r.img, scramble_to - load_address,
                 (Get(r.img, scramble_to - load_address) + r.seed) % 256)]

(* lines 446-449: range(scramble_from, scramble_to), then the last byte *)
encrypt(d) ==
    encrypt_last(encrypt_range(Pass(d, seed), scramble_from, scramble_to - 1))

----------------------------------------------------------------------------
(* The LDA/STA block shift (lines 296-298): 4 * 5 bytes, each taken from   *)
(* 4 bytes further up, in ascending order.  data_block[n] =                *)
(* data_block[n + 4] raises IndexError when either index is out of range.  *)

lda_sta_count == 20

lda_sta_shift == 4

RECURSIVE shift_loop(_, _, _)
shift_loop(d, n, end) ==
    IF n >= end THEN [img |-> d, ok |-> TRUE]
    ELSE IF ~InRange(d, n + lda_sta_shift) \/ ~InRange(d, n)
         THEN [img |-> d, ok |-> FALSE]
    ELSE shift_loop(Put(d, n, Get(d, n + lda_sta_shift)), n + 1, end)

(* Mutant: the same copy run from the highest byte down. *)
RECURSIVE shift_loop_descending(_, _, _)
shift_loop_descending(d, n, start) ==
    IF n < start THEN [img |-> d, ok |-> TRUE]
    ELSE IF ~InRange(d, n + lda_sta_shift) \/ ~InRange(d, n)
         THEN [img |-> d, ok |-> FALSE]
    ELSE shift_loop_descending(Put(d, n, Get(d, n + lda_sta_shift)), n - 1, start)

lda_sta_shuffle_descending(d, addr) ==
    LET lda_sta_block == get_offset(addr)
    IN  shift_loop_descending(d, lda_sta_block + lda_sta_count - 1, lda_sta_block)

lda_sta_shuffle(d, addr) ==
    LET lda_sta_block == get_offset(addr)
    IN  shift_loop(d, lda_sta_block, lda_sta_block + lda_sta_count)

----------------------------------------------------------------------------
(* The gma1 disk-protection patch (lines 474-484): single-byte stores, in  *)
(* the order of the code; a store past the end raises IndexError and the   *)
(* stores before it stay.                                                  *)

(* Mutant: the last PAL store lands one byte early. *)
pal_stores_shifted == << <<37, 234>>, <<38, 234>>, <<39, 234>>, <<43, 208>> >>

pal_stores == << <<37, 234>>, <<38, 234>>, <<39, 234>>, <<44, 208>> >>

ntsc_stores == << <<20, 234>>, <<22, 234>>, <<21, 234>> >>

RECURSIVE store_all(_, _)
store_all(d, stores) ==
    IF stores = <<>> THEN [img |-> d, ok |-> TRUE]
    ELSE IF ~InRange(d, Head(stores)[1]) THEN [img |-> d, ok |-> FALSE]
    ELSE store_all(Put(d, Head(stores)[1], Head(stores)[2]), Tail(stores))

patch_gma1(d) ==
    IF platform = "pal" THEN store_all(d, pal_stores)
    ELSE store_all(d, ntsc_stores)

----------------------------------------------------------------------------
(* The effect of each operation on the state.  An uncaught exception       *)
(* (IOError from open, IndexError from an index) ends the script: the      *)
(* position becomes "aborted" and nothing runs after it.                   *)

Msg(tag, text, size, addr) == [tag |-> tag, text |-> text, size |-> size, addr |-> addr]

Op(op, file, addr, insert) ==
    [op |-> op, file |-> file, addr |-> addr, insert |-> insert]

NoOp == Op("none", "", 0, <<>>)

DoInsertBytes(addr, insert) ==
    /\ data_block' = insert_bytes(data_block, addr, insert)
    /\ log' = Append(log, Msg("Modify", "insert bytes", Len(insert), addr))
    /\ before' = data_block
    /\ last' = Op("insert_bytes", "", addr, insert)

DoInsertNops(addr, count) ==
    /\ data_block' = insert_nops(data_block, addr, count)
    /\ log' = log \o << Msg("Modify", "insert bytes", count, addr),
                        Msg("Modify", "insert NOPs", count, addr) >>
    /\ before' = data_block
    /\ last' = Op("insert_nops", "", addr, [i \in 1..count |-> 234])

DoInsertBinaryFile(addr, filename, content) ==
    /\ data_block' = insert_binary_file(data_block, addr, content)
    /\ log' = Append(log, Msg("Modify", filename, 0, addr))
    /\ before' = data_block
    /\ last' = Op("insert_binary_file", filename, addr, content)

DoAppendFile(filename, content) ==
    /\ data_block' = data_block \o content
    /\ log' = Append(log, Msg("Modify", filename, 0, 0))
    /\ before' = data_block
    /\ last' = Op("append", filename, load_address + Len(data_block), content)

(* open() of a file that is not there: nothing else of the statement runs. *)
DoOpenFails(filename) ==
    /\ pc' = "aborted"
    /\ before' = data_block
    /\ last' = Op("open", filename, 0, <<>>)
    /\ UNCHANGED <<log, written, step, applied>>

DoShift(addr) ==
    /\ data_block' = lda_sta_shuffle(data_block, addr).img
    /\ before' = data_block
    /\ last' = Op("shift", "", addr, <<>>)
    /\ UNCHANGED log

DoDecrypt ==
    LET r == decrypt(data_block)
    IN  /\ data_block' = r.img
        /\ log' = IF r.ok THEN Append(log, Msg("Decrypt", "gma6", 0, 0)) ELSE log
        /\ before' = data_block
        /\ last' = Op("decrypt", "", scramble_to, <<>>)

DoEncrypt ==
    LET r == encrypt(data_block)
    IN  /\ data_block' = r.img
        /\ log' = IF r.ok THEN Append(log, Msg("Encrypt", "gma6.modified", 0, 0)) ELSE log
        /\ before' = data_block
        /\ last' = Op("encrypt", "", scramble_from, <<>>)

DoSave(filename) ==
    /\ written' = Append(written, [name |-> filename, data |-> data_block])
    /\ log' = Append(log, Msg("Save", filename, 0, 0))
    /\ UNCHANGED <<data_block, before, last>>

Names(w) == {w[i].name : i \in 1..Len(w)}

----------------------------------------------------------------------------
(* The codec on its own, the two passes run back to back in either order:  *)
(* on any short image, window and seed, and on the images, window and seed *)
(* of the script.                                                          *)

InitCodec ==
    /\ pc = "codec"
    /\ platform = "pal"
    /\ load_address \in LoadAddresses
    /\ \/ /\ seed \in SeedSamples
          /\ scramble_from \in load_address..(load_address + 2)
          /\ scramble_to \in scramble_from..(scramble_from + MaxSpan)
          /\ data_block \in Images(MaxLen, SampleBytes)
       \/ /\ seed = gma6_seed
          /\ scramble_from = load_address + 2
          /\ scramble_to = scramble_from + ScrambleSpan
          /\ data_block \in Gma6Files
    /\ step = 1
    /\ written = <<>>
    /\ log = <<>>
    /\ applied = <<>>
    /\ loaded = data_block
    /\ before = data_block
    /\ last = NoOp

CodecDecryptFirst ==
    /\ pc = "codec"
    /\ DoDecrypt
    /\ pc' = IF decrypt(data_block).ok THEN "codec_d" ELSE "aborted"
    /\ UNCHANGED <<platform, config, step, written, applied, loaded>>

CodecEncryptSecond ==
    /\ pc = "codec_d"
    /\ DoEncrypt
    /\ pc' = IF encrypt(data_block).ok THEN "codec_de" ELSE "aborted"
    /\ UNCHANGED <<platform, config, step, written, applied, loaded>>

CodecEncryptFirst ==
    /\ pc = "codec"
    /\ DoEncrypt
    /\ pc' = IF encrypt(data_block).ok THEN "codec_e" ELSE "aborted"
    /\ UNCHANGED <<platform, config, step, written, applied, loaded>>

CodecDecryptSecond ==
    /\ pc = "codec_e"
    /\ DoDecrypt
    /\ pc' = IF decrypt(data_block).ok THEN "codec_ed" ELSE "aborted"
    /\ UNCHANGED <<platform, config, step, written, applied, loaded>>

NextCodec ==
    \/ CodecDecryptFirst
    \/ CodecEncryptSecond
    \/ CodecEncryptFirst
    \/ CodecDecryptSecond

SpecCodec == InitCodec /\ [][NextCodec]_vars

(* C1: for any image that covers the scramble window and any seed byte,    *)
(* the decrypt pass followed at once by the encrypt pass, with the same    *)
(* window and seed, returns the image to its original bytes.               *)
C1_DecryptThenEncrypt ==
    pc = "codec_de" => data_block = loaded

(* A round trip over a window of several bytes whose decrypt pass changed  *)
(* the image, with a seed that is not zero.                                *)
C1_Witness ==
    /\ pc = "codec_de"
    /\ scramble_to > scramble_from + 1
    /\ seed # 0
    /\ before # loaded
    /\ data_block = loaded

(* C2: for any clear image that covers the scramble window and any seed    *)
(* byte, the encrypt pass followed by the decrypt pass, with the same      *)
(* window and seed, reproduces the clear image.                            *)
C2_EncryptThenDecrypt ==
    pc = "codec_ed" => data_block = loaded

(* An encrypt / decrypt round trip over a window of several bytes whose    *)
(* encrypt pass changed the image, with a seed that is not zero.           *)
C2_Witness ==
    /\ pc = "codec_ed"
    /\ scramble_to > scramble_from + 1
    /\ seed # 0
    /\ before # loaded
    /\ data_block = loaded

----------------------------------------------------------------------------
(* The overwrite primitives on their own: one operation applied to any     *)
(* image at any address, in range or not.                                  *)

PayloadBytes == {17, 234}

Payloads == Images(MaxPayload, PayloadBytes)

PatchAddrs == (load_address - MaxAddrPast)..(load_address + MaxLen + MaxAddrPast)

(* The script shifts the block at one address; here the address is drawn   *)
(* from the load address up, against images from one byte short of the     *)
(* lda_sta_count + lda_sta_shift bytes the shift reads to some bytes more.  *)
ShiftAddrs == load_address..(load_address + MaxAddrPast)

LongImages ==
    {Ramp(n, a, 0) : n \in (lda_sta_count + lda_sta_shift - 1)
                           ..(lda_sta_count + lda_sta_shift + MaxAddrPast),
                     a \in {1, 85}}

InitPatch ==
    /\ pc = "engine"
    /\ platform = "pal"
    /\ load_address \in LoadAddresses
    /\ seed = gma6_seed
    /\ scramble_from = load_address + 2
    /\ scramble_to = scramble_from
    /\ data_block \in Images(MaxLen, SampleBytes) \cup LongImages
    /\ step = 1
    /\ written = <<>>
    /\ log = <<>>
    /\ applied = <<>>
    /\ loaded = data_block
    /\ before = data_block
    /\ last = NoOp

PatchInsertBytes ==
    /\ pc = "engine"
    /\ \E addr \in PatchAddrs, insert \in Payloads : DoInsertBytes(addr, insert)
    /\ pc' = "engine_done"
    /\ UNCHANGED <<platform, config, step, written, applied, loaded>>

PatchInsertNops ==
    /\ pc = "engine"
    /\ \E addr \in PatchAddrs, count \in 0..(MaxPayload + 1) : DoInsertNops(addr, count)
    /\ pc' = "engine_done"
    /\ UNCHANGED <<platform, config, step, written, applied, loaded>>

PatchInsertBinaryFile ==
    /\ pc = "engine"
    /\ \E addr \in PatchAddrs, content \in Payloads :
           DoInsertBinaryFile(addr, "blob.bin", content)
    /\ pc' = "engine_done"
    /\ UNCHANGED <<platform, config, step, written, applied, loaded>>

PatchOpenFails ==
    /\ pc = "engine"
    /\ DoOpenFails("blob.bin")
    /\ UNCHANGED <<platform, config, data_block, loaded>>

PatchShift ==
    /\ pc = "engine"
    /\ \E addr \in ShiftAddrs :
           /\ DoShift(addr)
           /\ pc' = IF lda_sta_shuffle(data_block, addr).ok THEN "engine_done"
                    ELSE "aborted"
    /\ UNCHANGED <<platform, config, step, written, applied, loaded>>

PatchAppend ==
    /\ pc = "engine"
    /\ \E content \in Payloads : DoAppendFile("extra.bin", content)
    /\ pc' = "engine_done"
    /\ UNCHANGED <<platform, config, step, written, applied, loaded>>

NextPatch ==
    \/ PatchInsertBytes
    \/ PatchInsertNops
    \/ PatchInsertBinaryFile
    \/ PatchOpenFails
    \/ PatchShift
    \/ PatchAppend

SpecPatch == InitPatch /\ [][NextPatch]_vars

(* What the last operation was asked to write: offsets                     *)
(* LastStart .. LastEnd - 1 of the image.                                  *)
LastStart == get_offset(last.addr)

LastEnd ==
    IF last.op = "shift" THEN LastStart + lda_sta_count
    ELSE LastStart + Len(last.insert)

InsertOps == {"insert_bytes", "insert_nops"}

OverwriteOps == {"insert_bytes", "insert_nops", "insert_binary_file", "shift", "append"}

(* Offsets start .. (start + Len(p) - 1) of img exist and hold p. *)
HoldsAt(img, start, p) ==
    \A i \in 1..Len(p) :
        /\ start + i >= 1
        /\ start + i <= Len(img)
        /\ img[start + i] = p[i]

(* Every offset outside start .. end - 1 is in both images or in neither,  *)
(* and holds the same byte in both.                                        *)
SameOutside(old, new, start, end) ==
    \A i \in 1..Max(Len(old), Len(new)) :
        (i - 1 < start \/ i - 1 >= end) =>
            /\ i <= Len(old)
            /\ i <= Len(new)
            /\ new[i] = old[i]

(* C3, as claimed: after insert_bytes or insert_nops, for every image,     *)
(* address and payload, the bytes at offsets start .. start + length - 1   *)
(* equal the payload and every byte outside that range is unchanged.       *)
C3_InsertExactAnyAddress ==
    (pc = "engine_done" /\ last.op \in InsertOps) =>
        /\ HoldsAt(data_block, LastStart, last.insert)
        /\ SameOutside(before, data_block, LastStart, LastEnd)

(* The range the last operation reads or writes lies outside the image it  *)
(* was applied to.                                                         *)
LastOutOfRange ==
    \/ LastStart < 0
    \/ LastStart > Len(before)
    \/ last.op = "shift" /\ LastEnd + lda_sta_shift > Len(before)

(* C4, as claimed: an operation that has bytes to write and whose offset   *)
(* or range falls outside the current image aborts the run (it never       *)
(* completes as a truncated, wrapped or relocated write).                  *)
C4_OutOfRangeAborts ==
    (last.op \in OverwriteOps /\ LastEnd > LastStart /\ LastOutOfRange) =>
        pc = "aborted"

(* C5, as claimed: no patch operation shrinks the image, the length        *)
(* changes only when the end offset of the patch exceeds the current       *)
(* length, and every byte outside the written range keeps its offset.      *)
C5_TailOnlyGrowth ==
    (pc = "engine_done" /\ last.op \in OverwriteOps) =>
        /\ Len(data_block) >= Len(before)
        /\ (Len(data_block) # Len(before) => LastEnd > Len(before))
        /\ \A i \in 1..Len(before) :
               (i - 1 < LastStart \/ i - 1 >= LastEnd) => data_block[i] = before[i]

(* C6: the block shift leaves offsets d .. d + 19 equal to the bytes that  *)
(* were at d + 4 .. d + 23 before it began, whatever the image held.       *)
C6_ShiftReadsOldSource ==
    (pc = "engine_done" /\ last.op = "shift") =>
        \A i \in 1..lda_sta_count :
            data_block[LastStart + i] = before[LastStart + lda_sta_shift + i]

(* A completed shift of an image whose source and destination bytes all    *)
(* differ, so that a byte copied from an already shifted position would    *)
(* show.                                                                   *)
C6_Witness ==
    /\ pc = "engine_done"
    /\ last.op = "shift"
    /\ LastStart > 0
    /\ \A i \in 1..lda_sta_count :
           /\ before[LastStart + i] # before[LastStart + lda_sta_shift + i]
           /\ data_block[LastStart + i] = before[LastStart + lda_sta_shift + i]
    /\ data_block # before

----------------------------------------------------------------------------
(* The script, top to bottom.                                              *)
(*                                                                         *)
(* The memory map is scaled: the code's window is 0x62D6 bytes from        *)
(* scramble_from = 0x6A00 and every patch lies inside it; here every run   *)
(* of untouched bytes between two patched regions is shortened to one byte *)
(* and every blob gets two bytes of room, which keeps the order of the     *)
(* regions, their lengths, the distances inside each cluster of patches    *)
(* and every payload byte.  An entry's off is its scaled address minus     *)
(* scramble_from; the comment gives the line and the address of the code.  *)

Catalogue == <<
    [op |-> "file", off |-> 28, insert |-> <<>>, count |-> 0, file |-> "shppt.bin"],                \* 153: 0x9932
    [op |-> "bytes", off |-> 31, insert |-> <<32, 30, 205>>, count |-> 0, file |-> ""],             \* 167: 0x9A8A
    [op |-> "nops", off |-> 34, insert |-> <<>>, count |-> 1, file |-> ""],                         \* 170: 0x9A8D
    [op |-> "bytes", off |-> 36, insert |-> <<160, 9, 177, 87, 133, 174>>, count |-> 0, file |-> ""], \* 188: 0x9F2A
    [op |-> "nops", off |-> 42, insert |-> <<>>, count |-> 3, file |-> ""],                         \* 193: 0x9F30
    [op |-> "bytes", off |-> 46, insert |-> <<160, 0, 132, 159>>, count |-> 0, file |-> ""],        \* 211: 0x9F39
    [op |-> "nops", off |-> 50, insert |-> <<>>, count |-> 10, file |-> ""],                        \* 215: 0x9F3D
    [op |-> "bytes", off |-> 61, insert |-> <<32, 224, 204>>, count |-> 0, file |-> ""],            \* 238: 0x9F87
    [op |-> "nops", off |-> 64, insert |-> <<>>, count |-> 21, file |-> ""],                        \* 241: 0x9F8A
    [op |-> "bytes", off |-> 86, insert |-> <<133, 48, 160, 0>>, count |-> 0, file |-> ""],         \* 253: 0x9FB4
    [op |-> "nops", off |-> 91, insert |-> <<>>, count |-> 1, file |-> ""],                         \* 266: 0x9FC1
    [op |-> "bytes", off |-> 93, insert |-> <<200, 177, 91, 170>>, count |-> 0, file |-> ""],       \* 290: 0x9FD9
    [op |-> "shift", off |-> 97, insert |-> <<>>, count |-> 0, file |-> ""],                        \* 296: 0x9FDD
    [op |-> "bytes", off |-> 117, insert |-> <<200, 177, 91, 170>>, count |-> 0, file |-> ""],      \* 300: 0x9FF1
    [op |-> "nops", off |-> 121, insert |-> <<>>, count |-> 2, file |-> ""],                        \* 305: 0x9FF5
    [op |-> "bytes", off |-> 124, insert |-> <<76, 53, 205>>, count |-> 0, file |-> ""],            \* 318: 0xA010
    [op |-> "nops", off |-> 128, insert |-> <<>>, count |-> 28, file |-> ""],                       \* 328: 0xA13F
    [op |-> "file", off |-> 156, insert |-> <<>>, count |-> 0, file |-> "ll78.bin"],                \* 336: 0xA15B
    [op |-> "file", off |-> 159, insert |-> <<>>, count |-> 0, file |-> "ll155.bin"],               \* 344: 0xA178
    [op |-> "append", off |-> 0, insert |-> <<>>, count |-> 0, file |-> "extra.bin"],               \* 356
    [op |-> "bytes", off |-> 26, insert |-> <<96>>, count |-> 0, file |-> ""],                      \* 376: 0x920D
    [op |-> "bytes", off |-> 6, insert |-> <<32, 45, 183>>, count |-> 0, file |-> ""],              \* 391: 0x8899
    [op |-> "bytes", off |-> 10, insert |-> <<32, 56, 183>>, count |-> 0, file |-> ""],             \* 409: 0x8969
    [op |-> "nops", off |-> 13, insert |-> <<>>, count |-> 12, file |-> ""],                        \* 412: 0x896C
    [op |-> "bytes", off |-> 2, insert |-> <<32, 69, 183>>, count |-> 0, file |-> ""],              \* 423: 0x8879
    [op |-> "file", off |-> 162, insert |-> <<>>, count |-> 0, file |-> "editor.bin"]               \* 433: 0xB72D
>>

(* The inputs of a run: the command line, and what each file holds when    *)
(* it is opened (or that it is not there).                                 *)
Argvs == { <<"elite-modify.py">>, <<"elite-modify.py", "pal">>,
           <<"elite-modify.py", "ntsc">>, <<"elite-modify.py", "PAL">> }

Blobs == {Ramp(MaxBlob, 3, 200), Ramp(MaxBlob + 5, 3, 200)}

(* gma1 too short for either patch, too short for the last PAL store, and  *)
(* long enough for both.                                                   *)
Gma1Files == {Ramp(n, 1, 0) : n \in {20, 44} \cup 45..(45 + MaxTail)}

fetch_platform(argv) == IF Len(argv) >= 2 THEN argv[2] ELSE "pal"

(* str.upper() on the selectors drawn *)
upper(str) ==
    CASE str = "pal" -> "PAL"
      [] str = "ntsc" -> "NTSC"
      [] OTHER -> str

Init ==
    /\ pc = "start"
    /\ platform = "unset"
    /\ load_address \in LoadAddresses
    /\ seed = gma6_seed
    /\ scramble_from = load_address + 2
    /\ scramble_to = scramble_from + ScrambleSpan
    /\ data_block = <<>>
    /\ step = 1
    /\ written = <<>>
    /\ log = <<>>
    /\ applied = <<>>
    /\ loaded = <<>>
    /\ before = <<>>
    /\ last = NoOp

(* lines 78-87 *)
FetchPlatform ==
    /\ pc = "start"
    /\ \E argv \in Argvs :
           /\ platform' = fetch_platform(argv)
           /\ log' = Append(log, Msg("Platform", upper(fetch_platform(argv)), 0, 0))
    /\ pc' = "read_gma6"
    /\ UNCHANGED <<config, data_block, step, written, applied, loaded, before, last>>

(* lines 98-107 *)
ReadGma6 ==
    /\ pc = "read_gma6"
    /\ \E content \in Gma6Files :
           /\ data_block' = <<>> \o content
           /\ loaded' = content
    /\ log' = Append(log, Msg("Read", "gma6", 0, 0))
    /\ pc' = "decrypt"
    /\ UNCHANGED <<platform, config, step, written, applied, before, last>>

ReadGma6Fails ==
    /\ pc = "read_gma6"
    /\ data_block' = <<>>
    /\ loaded' = <<>>
    /\ DoOpenFails("gma6")
    /\ UNCHANGED <<platform, config>>

(* lines 111-118 *)
Decrypt ==
    /\ pc = "decrypt"
    /\ DoDecrypt
    /\ pc' = IF decrypt(data_block).ok THEN "save_decrypted" ELSE "aborted"
    /\ UNCHANGED <<platform, config, step, written, applied, loaded>>

(* lines 123-127 *)
SaveDecrypted ==
    /\ pc = "save_decrypted"
    /\ DoSave("gma6.decrypted")
    /\ pc' = "patch"
    /\ UNCHANGED <<platform, config, step, applied, loaded>>

(* Mutant: the gma6.modified checkpoint comes one entry early. *)
ScriptDoneEarly == step >= Len(Catalogue)

(* Every statement of the patch script (lines 153-433) has run. *)
ScriptDone == step > Len(Catalogue)

AtEntry(op) == pc = "patch" /\ step <= Len(Catalogue) /\ Catalogue[step].op = op

Applied ==
    /\ applied' = Append(applied, Catalogue[step])
    /\ step' = step + 1
    /\ pc' = "patch"

StepInsertBinaryFile ==
    /\ AtEntry("file")
    /\ \E content \in Blobs :
           DoInsertBinaryFile(scramble_from + Catalogue[step].off,
                              Catalogue[step].file, content)
    /\ Applied
    /\ UNCHANGED <<platform, config, written, loaded>>

StepInsertBytes ==
    /\ AtEntry("bytes")
    /\ DoInsertBytes(scramble_from + Catalogue[step].off, Catalogue[step].insert)
    /\ Applied
    /\ UNCHANGED <<platform, config, written, loaded>>

StepInsertNops ==
    /\ AtEntry("nops")
    /\ DoInsertNops(scramble_from + Catalogue[step].off, Catalogue[step].count)
    /\ Applied
    /\ UNCHANGED <<platform, config, written, loaded>>

StepShift ==
    /\ AtEntry("shift")
    /\ DoShift(scramble_from + Catalogue[step].off)
    /\ IF lda_sta_shuffle(data_block, scramble_from + Catalogue[step].off).ok
       THEN Applied
       ELSE pc' = "aborted" /\ UNCHANGED <<applied, step>>
    /\ UNCHANGED <<platform, config, written, loaded>>

(* lines 356-360 *)
StepAppend ==
    /\ AtEntry("append")
    /\ \E content \in Blobs : DoAppendFile(Catalogue[step].file, content)
    /\ Applied
    /\ UNCHANGED <<platform, config, written, loaded>>

(* open() at lines 50 and 356 when the file is not there *)
StepOpenFails ==
    /\ AtEntry("file") \/ AtEntry("append")
    /\ DoOpenFails(Catalogue[step].file)
    /\ UNCHANGED <<platform, config, data_block, loaded>>

(* lines 438-442 *)
SaveModified ==
    /\ pc = "patch"
    /\ ScriptDone
    /\ DoSave("gma6.modified")
    /\ pc' = "encrypt"
    /\ UNCHANGED <<platform, config, step, applied, loaded>>

(* lines 446-451 *)
Encrypt ==
    /\ pc = "encrypt"
    /\ DoEncrypt
    /\ pc' = IF encrypt(data_block).ok THEN "save_encrypted" ELSE "aborted"
    /\ UNCHANGED <<platform, config, step, written, applied, loaded>>

(* lines 456-460 *)
SaveEncrypted ==
    /\ pc = "save_encrypted"
    /\ DoSave("gma6.encrypted")
    /\ pc' = "read_gma1"
    /\ UNCHANGED <<platform, config, step, applied, loaded>>

(* lines 465-472 *)
ReadGma1 ==
    /\ pc = "read_gma1"
    /\ \E content \in Gma1Files :
           /\ data_block' = <<>> \o content
           /\ loaded' = content
    /\ log' = Append(log, Msg("Read", "gma1", 0, 0))
    /\ pc' = "patch_gma1"
    /\ UNCHANGED <<platform, config, step, written, applied, before, last>>

ReadGma1Fails ==
    /\ pc = "read_gma1"
    /\ data_block' = <<>>
    /\ loaded' = <<>>
    /\ DoOpenFails("gma1")
    /\ UNCHANGED <<platform, config>>

(* lines 474-486 *)
PatchGma1 ==
    /\ pc = "patch_gma1"
    /\ data_block' = patch_gma1(data_block).img
    /\ before' = data_block
    /\ last' = Op("patch_gma1", "gma1", 0, <<>>)
    /\ log' = IF patch_gma1(data_block).ok
              THEN Append(log, Msg("Modify", "gma1", 0, 0)) ELSE log
    /\ pc' = IF patch_gma1(data_block).ok THEN "save_gma1" ELSE "aborted"
    /\ UNCHANGED <<platform, config, step, written, applied, loaded>>

(* lines 488-493 *)
SaveGma1 ==
    /\ pc = "save_gma1"
    /\ DoSave("gma1.modified")
    /\ pc' = "done"
    /\ UNCHANGED <<platform, config, step, applied, loaded>>

Next ==
    \/ FetchPlatform
    \/ ReadGma6
    \/ ReadGma6Fails
    \/ Decrypt
    \/ SaveDecrypted
    \/ StepInsertBinaryFile
    \/ StepInsertBytes
    \/ StepInsertNops
    \/ StepShift
    \/ StepAppend
    \/ StepOpenFails
    \/ SaveModified
    \/ Encrypt
    \/ SaveEncrypted
    \/ ReadGma1
    \/ ReadGma1Fails
    \/ PatchGma1
    \/ SaveGma1

Spec == Init /\ [][Next]_vars

BlobNames == {"shppt.bin", "ll78.bin", "ll155.bin", "extra.bin", "editor.bin"}

Gma6Outputs == {"gma6.decrypted", "gma6.modified", "gma6.encrypted"}

(* C7, as claimed: a platform selector that is neither "pal" nor "ntsc" is *)
(* fatal: neither overwrite set is applied to the protection image and     *)
(* gma1.modified is not persisted.                                         *)
C7_UnknownPlatformFatal ==
    (platform \notin {"unset", "pal", "ntsc"}) =>
        /\ (last.op = "patch_gma1" => data_block = before)
        /\ "gma1.modified" \notin Names(written)

(* C8, as claimed: every input file is read before any transform runs, so  *)
(* a run that ends on a missing input has changed no byte of the image,    *)
(* applied no patch and persisted no output.                               *)
C8_AllInputsReadFirst ==
    (pc = "aborted" /\ last.op = "open") =>
        /\ written = <<>>
        /\ applied = <<>>
        /\ data_block = loaded

(* C8, amended: each input is read where the script first uses it.  A      *)
(* missing gma6, or a gma6 too short to cover the scramble window, ends    *)
(* the run with no byte changed, no patch applied and nothing persisted;   *)
(* a missing blob ends it with gma6.decrypted persisted and nothing else;  *)
(* a missing gma1, or one too short for its patch, ends it after the three *)
(* gma6 outputs and before gma1.modified.                                  *)
C8_InputsReadAtUse ==
    /\ (pc = "aborted" /\ last.op = "open" /\ last.file = "gma6") =>
           /\ written = <<>>
           /\ applied = <<>>
           /\ data_block = <<>>
    /\ (pc = "aborted" /\ last.op = "decrypt") =>
           /\ written = <<>>
           /\ applied = <<>>
           /\ data_block = loaded
    /\ (pc = "aborted" /\ last.op = "open" /\ last.file \in BlobNames) =>
           /\ Names(written) = {"gma6.decrypted"}
           /\ written[1].data = decrypt(loaded).img
    /\ (pc = "aborted" /\ last.file = "gma1") =>
           Names(written) = Gma6Outputs
    /\ "gma6.decrypted" \in Names(written) => decrypt(written[1].data).ok

(* A run that ended on a missing blob in the middle of the patch script,   *)
(* after the decrypt pass changed the image and gma6.decrypted was         *)
(* persisted.                                                              *)
C8_Witness ==
    /\ pc = "aborted"
    /\ last.op = "open"
    /\ last.file = "ll78.bin"
    /\ Names(written) = {"gma6.decrypted"}
    /\ written[1].data # loaded
    /\ applied # <<>>

(* The image with every offset in the domain of f set to the value f      *)
(* gives it, and every other byte as it is.                                *)
Overwritten(img, f) ==
    [i \in 1..Len(img) |-> IF i - 1 \in DOMAIN f THEN f[i - 1] ELSE img[i]]

StoreOffsets(stores) == {stores[k][1] : k \in 1..Len(stores)}

(* C9: with platform "pal" the protection image ends with offsets 0x25,    *)
(* 0x26, 0x27 set to 0xEA, offset 0x2C set to 0xD0 and every other byte    *)
(* and the length unchanged; with "ntsc" it ends with offsets 0x14, 0x15,  *)
(* 0x16 set to 0xEA and every other byte and the length unchanged; the two *)
(* sets of offsets are disjoint; and that image is what gma1.modified      *)
(* holds.                                                                  *)
C9_ProtectionOverwrites ==
    /\ (pc \in {"save_gma1", "done"} /\ platform = "pal") =>
           data_block = Overwritten(loaded, 37 :> 234 @@ 38 :> 234 @@ 39 :> 234 @@ 44 :> 208)
    /\ (pc \in {"save_gma1", "done"} /\ platform = "ntsc") =>
           data_block = Overwritten(loaded, 20 :> 234 @@ 21 :> 234 @@ 22 :> 234)
    /\ pc = "done" => written[Len(written)] = [name |-> "gma1.modified", data |-> data_block]
    /\ StoreOffsets(pal_stores) \cap StoreOffsets(ntsc_stores) = {}

(* A finished PAL run whose protection image differs from the one read at  *)
(* each of the four offsets.                                               *)
C9_Witness ==
    /\ pc = "done"
    /\ platform = "pal"
    /\ \A o \in {37, 38, 39, 44} : data_block[o + 1] # loaded[o + 1]
    /\ Len(data_block) > 45

(* C10: gma6.modified and gma6.encrypted are persisted only after every    *)
(* entry of the patch script has been applied once, in the order of the    *)
(* script; a run that ends inside the patch script has persisted nothing   *)
(* but gma6.decrypted.                                                     *)
C10_PersistAfterWholeScript ==
    /\ (Names(written) \cap {"gma6.modified", "gma6.encrypted", "gma1.modified"} # {}) =>
           applied = Catalogue
    /\ (pc = "aborted" /\ applied # Catalogue) =>
           Names(written) \subseteq {"gma6.decrypted"}
    /\ \A i \in 1..Len(written) :
           written[i].name = <<"gma6.decrypted", "gma6.modified",
                               "gma6.encrypted", "gma1.modified">>[i]

(* gma6.encrypted has just been persisted, after a script whose blobs      *)
(* were all there.                                                         *)
C10_Witness ==
    /\ pc = "read_gma1"
    /\ "gma6.encrypted" \in Names(written)
    /\ applied = Catalogue
    /\ written[2].data # written[1].data
    /\ written[3].data # written[2].data

(* A run that ended inside the patch script, on a missing blob, after some *)
(* entries were applied.                                                   *)
C10_AbortWitness ==
    /\ pc = "aborted"
    /\ applied # <<>>
    /\ applied # Catalogue
    /\ Names(written) = {"gma6.decrypted"}

====
